---- MODULE Spec2Model ----
(***************************************************************************)
(* Model of the room-comfort rule engine (src/rule_engine.py) and of the   *)
(* data model it builds (src/models.py).                                   *)
(*                                                                         *)
(* Number representation.  Python floats are modelled as fixed-point       *)
(* integers.  Unless a definition says otherwise a float x is the integer  *)
(* x * 10^6 ("micro" units): 23.5 is 23500000, a PMV of -0.65 is -650000.  *)
(* Quantities too large or too small for that scale carry their own scale, *)
(* stated where they are computed (vapour pressure in 10^-3 Pa, fourth     *)
(* powers of absolute temperatures in 10^3 K^4, exponentials in 10^-9).    *)
(* Python ints (occupancy, the AC setpoint) are plain integers.            *)
(* All intermediate values fit TLC's 32-bit integers: products are taken   *)
(* limb by limb (base 1000) so that no partial product overflows.          *)
(***************************************************************************)
EXTENDS Integers, Sequences, FiniteSets, TLC

VARIABLES
    REFERENCE_TABLE,        \* module global of rule_engine.py (a list)
    PPD_STATUS_MAP,         \* module global of rule_engine.py (a list)
    STATUS_MAX_CORRECTION,  \* module global of rule_engine.py (a dict)
    call,                   \* the evaluate call of each caller: position, locals, outcome
    prev,                   \* an earlier finished call, kept to compare later calls with
    fn_call,                \* a direct call of one function of the engine
    service                 \* the MQTT service of main.py: its globals and the position of its loop

vars == <<REFERENCE_TABLE, PPD_STATUS_MAP, STATUS_MAX_CORRECTION, call, prev, fn_call, service>>

(***************************************************************************)
(* Fixed-point arithmetic: the float operations the engine uses.           *)
(***************************************************************************)

\* abs() on a fixed-point value
Abs(x) == IF x < 0 THEN -x ELSE x

Sgn(x) == IF x < 0 THEN -1 ELSE 1

\* max() and min() of two values
Max2(a, b) == IF a >= b THEN a ELSE b

Min2(a, b) == IF a <= b THEN a ELSE b

\* a * b / 10^6 rounded to nearest, for a, b >= 0 (float product of two
\* micro-unit values, or of one micro-unit value and a value of any scale)
MulNat6(a, b) ==
    LET a2 == a \div 1000000
        a1 == (a \div 1000) % 1000
        a0 == a % 1000
        b2 == b \div 1000000
        b1 == (b \div 1000) % 1000
        b0 == b % 1000
    IN  a2 * b2 * 1000000 + (a2 * b1 + a1 * b2) * 1000
          + (a2 * b0 + a1 * b1 + a0 * b2)
          + ((a1 * b0 + a0 * b1) * 1000 + a0 * b0 + 500000) \div 1000000

\* a * b / 10^9 rounded to nearest, for a, b >= 0
MulNat9(a, b) ==
    LET a2 == a \div 1000000
        a1 == (a \div 1000) % 1000
        a0 == a % 1000
        b2 == b \div 1000000
        b1 == (b \div 1000) % 1000
        b0 == b % 1000
        v  == a2 * b0 + a1 * b1 + a0 * b2
                + ((a1 * b0 + a0 * b1) * 1000 + a0 * b0) \div 1000000
    IN  a2 * b2 * 1000 + a2 * b1 + a1 * b2 + (v + 500) \div 1000

\* signed float product, result scaled down by 10^6
Mul6(a, b) == Sgn(a) * Sgn(b) * MulNat6(Abs(a), Abs(b))

\* signed float product, result scaled down by 10^9
Mul9(a, b) == Sgn(a) * Sgn(b) * MulNat9(Abs(a), Abs(b))

\* a / k rounded to nearest, k > 0 an integer
RoundDiv(a, k) == Sgn(a) * ((Abs(a) + k \div 2) \div k)

\* long division: k more decimal digits of r / d appended to the quotient q
\* (each digit taken as 2 * (5r div d) + carry, so that nothing overflows)
RECURSIVE DivDigits(_, _, _, _)
DivDigits(q, r, d, k) ==
    IF k = 0 THEN q
    ELSE LET h    == (5 * r) \div d
             rem5 == 5 * r - h * d
             c    == IF 2 * rem5 >= d THEN 1 ELSE 0
         IN  DivDigits(q * 10 + 2 * h + c, 2 * rem5 - c * d, d, k - 1)

\* float division n / d for n, d > 0: floor(n * 10^k / d)
Quot(n, d, k) == DivDigits(n \div d, n % d, d, k)

\* round() of Python 3: to the nearest multiple of unit, ties to the even one.
\* The result is the multiple's index (x = 20.5, unit = 10^6 gives 20).
RoundHalfEven(x, unit) ==
    LET q == x \div unit
        r == x % unit
    IN  IF 2 * r < unit THEN q
        ELSE IF 2 * r > unit THEN q + 1
        ELSE IF q % 2 = 0 THEN q ELSE q + 1

\* e^(1/2) and e^(-1/2) in 10^-9
SqrtE9 == 1648721271

InvSqrtE9 == 606530660

\* number of Taylor terms of ExpFrac9: 0.25^12 / 12! is below 10^-16
ExpTerms == 12

\* Taylor series of e^f for |f| <= 1/4: f in micro units, result in 10^-9
RECURSIVE ExpSeries(_, _, _, _)
ExpSeries(f9, k, t, s) ==
    IF k > ExpTerms THEN s
    ELSE LET t2 == RoundDiv(Mul9(t, f9), k)
         IN  ExpSeries(f9, k + 1, t2, s + t2)

ExpFrac9(f) == ExpSeries(f * 1000, 1, 1000000000, 1000000000)

\* acc * (e^(1/2))^m for m >= 0, acc * (e^(-1/2))^(-m) for m < 0
RECURSIVE ExpHalves(_, _)
ExpHalves(acc, m) ==
    IF m = 0 THEN acc
    ELSE IF m > 0 THEN ExpHalves(MulNat9(acc, SqrtE9), m - 1)
    ELSE ExpHalves(MulNat9(acc, InvSqrtE9), m + 1)

\* math.exp(x): x in micro units; the result is e^x * one (one = 10^6 gives
\* micro units, one = 10^9 gives 10^-9 units).  x = m/2 + f with |f| <= 1/4.
Exp(x, one) ==
    LET m == (2 * x + 500000) \div 1000000
        f == x - m * 500000
    IN  MulNat9(ExpHalves(one, m), ExpFrac9(f))

\* largest y in [lo, hi) with y^pw <= v (pw = 2 or 4), y and v in micro units
RECURSIVE Bisect(_, _, _, _)
Bisect(lo, hi, v, pw) ==
    IF hi - lo <= 1 THEN lo
    ELSE LET mid == (lo + hi) \div 2
             sq  == MulNat6(mid, mid)
             val == IF pw = 2 THEN sq ELSE MulNat6(sq, sq)
         IN  IF val <= v THEN Bisect(mid, hi, v, pw) ELSE Bisect(lo, mid, v, pw)

\* upper end of the root search: roots of values up to 16 (sqrt) or 256 (** 0.25)
RootMax == 4000000

\* math.sqrt(v)
Sqrt6(v) == Bisect(0, RootMax, v, 2)

\* v ** 0.25
Root4(v) == Bisect(0, RootMax, v, 4)

(***************************************************************************)
(* Default assumptions of the PMV calculation (no sensor for them).        *)
(***************************************************************************)

\* Tr = Ta + offset
DEFAULT_MEAN_RADIANT_TEMP_OFFSET == 0

\* 0.1 m/s
DEFAULT_AIR_VELOCITY == 100000

\* 1.2 met
DEFAULT_METABOLIC_RATE == 1200000

\* 0.5 clo
DEFAULT_CLOTHING_INSULATION == 500000

(***************************************************************************)
(* calculate_pmv: Fanger's equation (ISO 7730).                            *)
(***************************************************************************)

\* cap of the fixed-point iteration: for _ in range(100)
MaxIterations == 100

\* tolerance of the fixed-point iteration, 0.001
Tolerance == 1000

\* M = met * 58.15 (W/m2)
MetabolicW(met) == Mul6(met, 58150000)

\* external work W = 0
ExternalWork == 0

\* clothing area factor fcl
ClothingFactor(clo) ==
    IF clo <= 78000 THEN 1000000 + Mul6(1290000, clo)
    ELSE 1050000 + Mul6(645000, clo)

\* water vapour pressure pa = rh * 10 * exp(16.6536 - 4030.183 / (ta + 235)),
\* in 10^-3 Pa
VapourPressure(ta, rh) ==
    Mul6(rh \div 100, Exp(16653600 - Quot(4030183, ta + 235000000, 9), 1000000))

\* hc = max(2.38 * abs(35.7 - 0.028 * (M - W) - ta) ** 0.25, 12.1 * sqrt(vel))
ConvectionCoef(ta, vel, MW) ==
    Max2(Mul6(2380000, Root4(Abs(35700000 - Mul6(28000, MW) - ta))),
         Mul6(12100000, Sqrt6(vel)))

\* (t + 273) ** 4, in 10^3 K^4
Pow4K(t) ==
    LET T2 == Mul9(t + 273000000, t + 273000000)
    IN  Mul9(T2, T2)

\* 3.96e-8 * fcl * ((tcl + 273) ** 4 - (tr + 273) ** 4)
Radiation(fcl, tcl, tr) == Mul6(Mul6(39600000, fcl), Pow4K(tcl) - Pow4K(tr))

\* fcl * hc * (tcl - ta)
Convection(fcl, hc, tcl, ta) == Mul6(Mul6(fcl, hc), tcl - ta)

\* one update of the clothing surface temperature tcl
TclStep(tcl, ta, tr, MW, fcl, Icl, hc) ==
    35700000 - Mul6(28000, MW)
        - Mul6(Icl, Radiation(fcl, tcl, tr) + Convection(fcl, hc, tcl, ta))

\* the locals of calculate_pmv when it enters the loop (lines 159-179):
\* tcl is the initial guess and n the number of updates done; tcl_old is
\* bound by the first round and not read before, it holds the guess until then
PmvFrame(ta, tr, vel, rh, met, clo) ==
    LET M  == MetabolicW(met)
        MW == M - ExternalWork
    IN  [ta |-> ta, tr |-> tr, M |-> M, MW |-> MW,
         fcl |-> ClothingFactor(clo),
         Icl |-> Mul6(clo, 155000),
         pa  |-> VapourPressure(ta, rh),
         hc  |-> ConvectionCoef(ta, vel, MW),
         tcl |-> 35700000 - Mul6(28000, MW),
         tcl_old |-> 35700000 - Mul6(28000, MW),
         n   |-> 0]

\* one round of "for _ in range(100)": tcl_old = tcl, then tcl is updated
TclUpdate(f) ==
    [f EXCEPT !.tcl_old = f.tcl,
              !.tcl = TclStep(f.tcl, f.ta, f.tr, f.MW, f.fcl, f.Icl, f.hc),
              !.n = f.n + 1]

\* a loop that is left on the break only
LoopExitOnBreak(f, g) == Abs(g.tcl - f.tcl) < Tolerance

\* the loop is left after the round that took f to g: on the break
\* abs(tcl - tcl_old) < 0.001, or because range(100) is exhausted
LoopExit(f, g) == Abs(g.tcl - f.tcl) < Tolerance \/ g.n >= MaxIterations

\* lines 193-206, the PMV before rounding and clamping:
\* (0.303 * exp(-0.036 * M) + 0.028) * L
RawPmv(f) ==
    LET \* 3.05e-3 * (5733 - 6.99 * (M - W) - pa)
        HL1 == ((5733000 - RoundDiv(Mul6(6990000, f.MW), 1000) - f.pa) * 305) \div 100
        HL2 == IF f.MW > 58150000 THEN Mul6(420000, f.MW - 58150000) ELSE 0
        \* 1.7e-5 * M * (5867 - pa)
        HL3 == Mul6(Mul6(17000, f.M), 5867000 - f.pa)
        HL4 == Mul6(Mul6(1400, f.M), 34000000 - f.ta)
        HL5 == Radiation(f.fcl, f.tcl, f.tr)
        HL6 == Convection(f.fcl, f.hc, f.tcl, f.ta)
        L   == f.MW - HL1 - HL2 - HL3 - HL4 - HL5 - HL6
    IN  Mul9(Mul9(303000000, Exp(-Mul6(36000, f.M), 1000000000)) + 28000000, L)

\* a solver tail that rounds but forgets the clamp
RoundPmv(pmv) == RoundHalfEven(pmv, 10000) * 10000

\* return max(-3.0, min(3.0, round(pmv, 2)))
ClampPmv(pmv) == Max2(-3000000, Min2(3000000, RoundHalfEven(pmv, 10000) * 10000))

\* the value calculate_pmv returns from the locals f it left the loop with
PmvResult(f) == ClampPmv(RawPmv(f))

(***************************************************************************)
(* calculate_ppd: PPD = 100 - 95 * exp(-0.03353 * PMV^4 - 0.2179 * PMV^2)  *)
(***************************************************************************)

\* a mapper whose quartic term is written with the third power
RawPpdCubic(pmv) ==
    LET p2 == Mul6(pmv, pmv)
        p3 == Mul6(p2, pmv)
    IN  100000000 - Mul9(95000000, Exp(-Mul6(33530, p3) - Mul6(217900, p2), 1000000000))

\* the PPD before clamping and rounding
RawPpd(pmv) ==
    LET p2 == Mul6(pmv, pmv)
        p4 == Mul6(p2, p2)
    IN  100000000
          - Mul9(95000000, Exp(-Mul6(33530, p4) - Mul6(217900, p2), 1000000000))

\* return round(max(5.0, min(100.0, ppd)), 1)
ClampPpd(ppd) == RoundHalfEven(Max2(5000000, Min2(100000000, ppd)), 100000) * 100000

calculate_ppd(pmv) == ClampPpd(RawPpd(pmv))

(***************************************************************************)
(* The module globals as rule_engine.py sets them at import.               *)
(***************************************************************************)

\* rows <<occ_min, occ_max, target_temp, hum_min, hum_max, lux, noise_max>>;
\* occupancies are ints, the other columns are in micro units
ReferenceTable ==
    << <<0, 0, 24000000, 50000000, 50000000, 450000000, 45000000>>,
       <<1, 10, 23500000, 45000000, 55000000, 400000000, 45000000>>,
       <<11, 18, 25000000, 45000000, 55000000, 420000000, 45000000>>,
       <<19, 25, 26500000, 56000000, 65000000, 380000000, 55000000>>,
       <<26, 30, 27100000, 66000000, 70000000, 550000000, 55000000>>,
       <<31, 999, 28500000, 71000000, 75000000, 600000000, 60000000>> >>

\* rows <<ppd_min, ppd_max, status>>
PpdStatusMap ==
    << <<0, 10000000, "Ideal">>,
       <<10000000, 25000000, "Optimalisasi">>,
       <<25000000, 50000000, "Peringatan">>,
       <<50000000, 100000000, "Kritis">> >>

StatusMaxCorrection ==
    [s \in {"Ideal", "Optimalisasi", "Peringatan", "Kritis", "Boros Energi"} |->
        CASE s = "Ideal" -> 0
          [] s = "Optimalisasi" -> 1500000
          [] s = "Peringatan" -> 2500000
          [] s = "Kritis" -> 3000000
          [] s = "Boros Energi" -> 0]

(***************************************************************************)
(* The data model (models.py).  A call either returns a value or raises.   *)
(***************************************************************************)

NoValue == [none |-> TRUE]

\* no row of the reference table
NoRow == <<>>

Returned(v) == [raised |-> "none", value |-> v]

Raised(e) == [raised |-> e, value |-> NoValue]

\* ACMode = Literal["cool", "fan", "dry", "heat"]
ACMode == {"cool", "fan", "dry", "heat"}

\* ACFanSpeed = Literal["low", "medium", "high", "auto", "quiet"]
ACFanSpeed == {"low", "medium", "high", "auto", "quiet"}

\* ACControl(temp=..., mode=..., fan=...): pydantic validates the fields
\* (temp: ge=10, le=32) and raises ValidationError when one is not allowed
ACControl(temp, mode, fan) ==
    IF temp >= 10 /\ temp <= 32 /\ mode \in ACMode /\ fan \in ACFanSpeed
    THEN Returned([temp |-> temp, mode |-> mode, fan |-> fan])
    ELSE Raised("ValidationError")

\* Recommendation has the one field reason; pydantic ignores any other
\* keyword it is given
Recommendation(fields) ==
    IF "reason" \in DOMAIN fields THEN Returned([reason |-> fields.reason])
    ELSE Raised("ValidationError")

\* ComfortAnalysisResponse requires Comfort, Recommendation and Input_sensor
ComfortAnalysisResponse(fields) ==
    IF {"Comfort", "Recommendation", "Input_sensor"} \subseteq DOMAIN fields
    THEN Returned([Comfort |-> fields.Comfort, Recommendation |-> fields.Recommendation,
                   Input_sensor |-> fields.Input_sensor])
    ELSE Raised("ValidationError")

(***************************************************************************)
(* get_reference_for_occupancy, get_status_from_ppd                        *)
(***************************************************************************)

\* a lookup whose fallback is the first row, REFERENCE_TABLE[0]
get_reference_first_fallback(occupancy) ==
    LET hits == {i \in 1..Len(REFERENCE_TABLE) :
                    REFERENCE_TABLE[i][1] <= occupancy
                    /\ occupancy <= REFERENCE_TABLE[i][2]}
    IN  IF hits = {} THEN REFERENCE_TABLE[1]
        ELSE REFERENCE_TABLE[CHOOSE i \in hits : \A j \in hits : i <= j]

\* the first row whose inclusive range holds occupancy, else the last row
get_reference_for_occupancy(occupancy) ==
    LET hits == {i \in 1..Len(REFERENCE_TABLE) :
                    REFERENCE_TABLE[i][1] <= occupancy
                    /\ occupancy <= REFERENCE_TABLE[i][2]}
    IN  IF hits = {} THEN REFERENCE_TABLE[Len(REFERENCE_TABLE)]
        ELSE REFERENCE_TABLE[CHOOSE i \in hits : \A j \in hits : i <= j]

\* buckets closed below and open above
InBucketLowerClosed(row, ppd) == row[1] <= ppd /\ ppd < row[2]

\* if ppd_min < ppd <= ppd_max or (ppd_min == 0 and ppd <= ppd_max)
InBucket(row, ppd) ==
    (row[1] < ppd /\ ppd <= row[2]) \/ (row[1] = 0 /\ ppd <= row[2])

get_status_from_ppd(ppd, occupancy) ==
    IF occupancy = 0 THEN "Boros Energi"
    ELSE LET hits == {i \in 1..Len(PPD_STATUS_MAP) : InBucket(PPD_STATUS_MAP[i], ppd)}
         IN  IF hits = {} THEN "Kritis"
             ELSE PPD_STATUS_MAP[CHOOSE i \in hits : \A j \in hits : i <= j][3]

(***************************************************************************)
(* calculate_env_score: lighting, noise and humidity, each scored 0..100,  *)
(* with the issues detected along the way.                                 *)
(***************************************************************************)

\* round(x, 1)
Round1(x) == RoundHalfEven(x, 100000) * 100000

EnvIssue(factor, severity, description, recommendation) ==
    [factor |-> factor, severity |-> severity,
     description |-> description, recommendation |-> recommendation]

LightingScore(lux_actual, lux_target) ==
    LET lux_deviation == Abs(lux_actual - lux_target)
    IN  IF lux_deviation <= 50000000 THEN 100000000
        ELSE IF lux_deviation <= 100000000 THEN 80000000
        ELSE IF lux_deviation <= 200000000 THEN 60000000
        ELSE Max2(0, 100000000 - RoundDiv(lux_deviation, 5))

\* a detector that reports a very dim room twice, as moderate and as severe
LightingIssuesTwice(lux_actual, lux_target) ==
    IF lux_actual < lux_target - 200000000
    THEN << EnvIssue("lighting", "moderate",
                     <<"Pencahayaan terlalu redup", lux_actual, lux_target>>,
                     "Tambah sumber cahaya atau buka tirai"),
            EnvIssue("lighting", "severe",
                     <<"Pencahayaan terlalu redup", lux_actual, lux_target>>,
                     "Tambah sumber cahaya atau buka tirai") >>
    ELSE << >>

\* the description is the f-string's fixed text with the values it formats
LightingIssues(lux_actual, lux_target) ==
    IF lux_actual < lux_target - 100000000
    THEN << EnvIssue("lighting",
                     IF lux_actual < lux_target - 200000000 THEN "severe" ELSE "moderate",
                     <<"Pencahayaan terlalu redup", lux_actual, lux_target>>,
                     "Tambah sumber cahaya atau buka tirai") >>
    ELSE IF lux_actual > lux_target + 200000000
    THEN << EnvIssue("lighting",
                     IF lux_actual > lux_target + 400000000 THEN "severe" ELSE "moderate",
                     <<"Pencahayaan berlebihan/silau", lux_actual, lux_target>>,
                     "Kurangi pencahayaan atau gunakan tirai anti-silau") >>
    ELSE << >>

NoiseScore(noise_actual, noise_max) ==
    IF noise_actual <= noise_max THEN 100000000
    ELSE IF noise_actual <= noise_max + 5000000 THEN 80000000
    ELSE IF noise_actual <= noise_max + 10000000 THEN 60000000
    ELSE Max2(0, 100000000 - (noise_actual - noise_max) * 5)

\* a detector that reports any noise above the limit
NoiseIssuesEarly(noise_actual, noise_max) ==
    IF noise_actual > noise_max
    THEN << EnvIssue("noise", "moderate",
                     <<"Kebisingan di atas batas nyaman", noise_actual, noise_max>>,
                     "Kurangi aktivitas bising atau gunakan white noise") >>
    ELSE << >>

NoiseIssues(noise_actual, noise_max) ==
    LET noise_over == noise_actual - noise_max
    IN  IF noise_over > 15000000
        THEN << EnvIssue("noise", "severe",
                         <<"Kebisingan sangat tinggi", noise_actual, noise_max>>,
                         "Identifikasi dan eliminasi sumber bising, pertimbangkan peredam suara") >>
        ELSE IF noise_over > 5000000
        THEN << EnvIssue("noise", "moderate",
                         <<"Kebisingan di atas batas nyaman", noise_actual, noise_max>>,
                         "Kurangi aktivitas bising atau gunakan white noise") >>
        ELSE << >>

HumidityScore(hum_actual, hum_min, hum_max) ==
    IF hum_min <= hum_actual /\ hum_actual <= hum_max THEN 100000000
    ELSE LET hum_deviation == IF hum_actual < hum_min THEN hum_min - hum_actual
                              ELSE hum_actual - hum_max
         IN  IF hum_deviation <= 5000000 THEN 90000000
             ELSE IF hum_deviation <= 10000000 THEN 70000000
             ELSE IF hum_deviation <= 15000000 THEN 50000000
             ELSE Max2(0, 100000000 - hum_deviation * 3)

HumidityIssues(hum_actual, hum_min, hum_max) ==
    IF hum_actual < hum_min - 10000000
    THEN << EnvIssue("humidity", "moderate",
                     <<"Udara terlalu kering", hum_actual, hum_min, hum_max>>,
                     "Gunakan humidifier atau kurangi intensitas AC") >>
    ELSE IF hum_actual > hum_max + 10000000
    THEN << EnvIssue("humidity",
                     IF hum_actual > hum_max + 20000000 THEN "severe" ELSE "moderate",
                     <<"Udara terlalu lembap/pengap", hum_actual, hum_min, hum_max>>,
                     "Tingkatkan ventilasi atau gunakan dehumidifier") >>
    ELSE << >>

\* returns <<score, breakdown, issues>>
calculate_env_score(lux_actual, lux_target, noise_actual, noise_max, hum_actual, hum_min, hum_max) ==
    LET lux_score == LightingScore(lux_actual, lux_target)
        noise_score == NoiseScore(noise_actual, noise_max)
        hum_score == HumidityScore(hum_actual, hum_min, hum_max)
        total_score == Mul6(lux_score, 350000) + Mul6(noise_score, 350000)
                         + Mul6(hum_score, 300000)
    IN  << Round1(total_score),
           [lighting |-> Round1(lux_score), noise |-> Round1(noise_score),
            humidity |-> Round1(hum_score)],
           LightingIssues(lux_actual, lux_target)
             \o NoiseIssues(noise_actual, noise_max)
             \o HumidityIssues(hum_actual, hum_min, hum_max) >>

(***************************************************************************)
(* get_thermal_severity, determine_ac_control                              *)
(***************************************************************************)

get_thermal_severity(pmv) ==
    LET abs_pmv == Abs(pmv)
    IN  IF abs_pmv <= 500000 THEN "none"
        ELSE IF abs_pmv <= 1000000 THEN "mild"
        ELSE IF abs_pmv <= 1500000 THEN "moderate"
        ELSE "severe"

\* int(round(x))
RoundInt(x) == RoundHalfEven(x, 1000000)

\* base_adjustment: the ramp of the severity band
\* ramps of which the severe one starts where the moderate one started
BaseAdjustmentJump(thermal_severity, abs_pmv) ==
    IF thermal_severity = "mild" THEN 500000 + Mul6(abs_pmv - 500000, 1500000)
    ELSE IF thermal_severity = "moderate" THEN 1250000 + Mul6(abs_pmv - 1000000, 1500000)
    ELSE 1250000 + Mul6(abs_pmv - 1500000, 670000)

BaseAdjustment(thermal_severity, abs_pmv) ==
    IF thermal_severity = "mild" THEN 500000 + Mul6(abs_pmv - 500000, 1500000)
    ELSE IF thermal_severity = "moderate" THEN 1250000 + Mul6(abs_pmv - 1000000, 1500000)
    ELSE 2000000 + Mul6(abs_pmv - 1500000, 670000)

\* a policy whose ceiling is the largest one whatever the status is
MaxCorrectionLargest(status) == 3000000

\* STATUS_MAX_CORRECTION.get(status, 1.5)
MaxCorrection(status) ==
    IF status \in DOMAIN STATUS_MAX_CORRECTION THEN STATUS_MAX_CORRECTION[status]
    ELSE 1500000

FanSpeed(thermal_severity, abs_pmv) ==
    IF thermal_severity = "mild" THEN (IF abs_pmv <= 800000 THEN "auto" ELSE "low")
    ELSE IF thermal_severity = "moderate" THEN "medium"
    ELSE "high"

\* a policy that moves the setpoint towards the discomfort: up for a warm
\* vote, down for a cold one
AcLocalsReversed(pmv, target_temp, status) ==
    LET abs_pmv == Abs(pmv)
        thermal_severity == get_thermal_severity(pmv)
        base_adjustment == BaseAdjustment(thermal_severity, abs_pmv)
        max_correction == MaxCorrection(status)
        temp_adjustment == Min2(base_adjustment, max_correction)
    IN  [thermal_severity |-> thermal_severity,
         base_adjustment |-> base_adjustment,
         max_correction |-> max_correction,
         temp_adjustment |-> temp_adjustment,
         fan_speed |-> FanSpeed(thermal_severity, abs_pmv),
         ac_temp |-> IF pmv > 0 THEN RoundInt(target_temp + temp_adjustment)
                     ELSE RoundInt(target_temp - temp_adjustment),
         mode |-> IF pmv > 0 THEN "cool"
                  ELSE IF thermal_severity = "severe" THEN "fan"
                  ELSE IF thermal_severity = "moderate" THEN "dry"
                  ELSE "auto"]

\* the locals of determine_ac_control on the path past the neutral zone;
\* ac_temp is the setpoint before the clamp to the operating range
AcLocals(pmv, target_temp, status) ==
    LET abs_pmv == Abs(pmv)
        thermal_severity == get_thermal_severity(pmv)
        base_adjustment == BaseAdjustment(thermal_severity, abs_pmv)
        max_correction == MaxCorrection(status)
        temp_adjustment == Min2(base_adjustment, max_correction)
    IN  [thermal_severity |-> thermal_severity,
         base_adjustment |-> base_adjustment,
         max_correction |-> max_correction,
         temp_adjustment |-> temp_adjustment,
         fan_speed |-> FanSpeed(thermal_severity, abs_pmv),
         ac_temp |-> IF pmv > 0 THEN RoundInt(target_temp - temp_adjustment)
                     ELSE RoundInt(target_temp + temp_adjustment),
         mode |-> IF pmv > 0 THEN "cool"
                  ELSE IF thermal_severity = "severe" THEN "fan"
                  ELSE IF thermal_severity = "moderate" THEN "dry"
                  ELSE "auto"]

\* the return statement determine_ac_control leaves by
AcBranch(pmv, occupancy) ==
    IF occupancy = 0 THEN "vacant"
    ELSE IF get_thermal_severity(pmv) = "none" THEN "neutral"
    ELSE "corrected"

\* the setpoint of the branch taken, before the clamp to the operating range
AcSetpoint(pmv, target_temp, occupancy, status) ==
    LET branch == AcBranch(pmv, occupancy)
    IN  IF branch = "vacant" THEN 24
        ELSE IF branch = "neutral" THEN RoundInt(target_temp)
        ELSE AcLocals(pmv, target_temp, status).ac_temp

\* ac_temp = max(16, min(30, ac_temp))
\* the locals determine_ac_control has bound when it leaves; those of the
\* correction exist on the path past the neutral zone only
AcFrame(pmv, target_temp, occupancy, status) ==
    LET branch == AcBranch(pmv, occupancy)
        l == AcLocals(pmv, target_temp, status)
    IN  [branch |-> branch,
         ac_temp |-> AcSetpoint(pmv, target_temp, occupancy, status),
         base_adjustment |-> IF branch = "corrected" THEN l.base_adjustment ELSE NoValue,
         max_correction |-> IF branch = "corrected" THEN l.max_correction ELSE NoValue,
         temp_adjustment |-> IF branch = "corrected" THEN l.temp_adjustment ELSE NoValue,
         mode |-> IF branch = "corrected" THEN l.mode ELSE NoValue,
         fan_speed |-> IF branch = "corrected" THEN l.fan_speed ELSE NoValue]

ClampSetpoint(ac_temp) == Max2(16, Min2(30, ac_temp))

\* a policy that corrects from the measured temperature
determine_ac_control_from_current(pmv, ppd, current_temp, target_temp, occupancy, status) ==
    LET branch == AcBranch(pmv, occupancy)
    IN  IF branch = "vacant" THEN ACControl(24, "off", "auto")
        ELSE IF branch = "neutral" THEN ACControl(RoundInt(target_temp), "auto", "auto")
        ELSE LET l == AcLocals(pmv, current_temp, status)
             IN  ACControl(ClampSetpoint(l.ac_temp), l.mode, l.fan_speed)

determine_ac_control(pmv, ppd, current_temp, target_temp, occupancy, status) ==
    LET branch == AcBranch(pmv, occupancy)
    IN  IF branch = "vacant" THEN ACControl(24, "off", "auto")
        ELSE IF branch = "neutral" THEN ACControl(RoundInt(target_temp), "auto", "auto")
        ELSE LET l == AcLocals(pmv, target_temp, status)
             IN  ACControl(ClampSetpoint(l.ac_temp), l.mode, l.fan_speed)

(***************************************************************************)
(* evaluate: the reading is a record of SensorData's fields.               *)
(***************************************************************************)

\* lines 543-548: the solver's inputs, as calculate_pmv receives them
PmvInputs(sensor_data) ==
    [ta |-> sensor_data.temp,
     tr |-> sensor_data.temp + DEFAULT_MEAN_RADIANT_TEMP_OFFSET,
     vel |-> DEFAULT_AIR_VELOCITY,
     rh |-> sensor_data.hum,
     met |-> DEFAULT_METABOLIC_RATE,
     clo |-> DEFAULT_CLOTHING_INSULATION]

\* a scorer call that is handed the temperature in the humidity's place
EnvScoreOfTemp(sensor_data, ref) ==
    calculate_env_score(sensor_data.light_level, ref[6], sensor_data.noise, ref[7],
                        sensor_data.temp, ref[4], ref[5])

\* lines 573-577: what evaluate hands to the environmental scorer
EnvScoreOf(sensor_data, ref) ==
    calculate_env_score(sensor_data.light_level, ref[6], sensor_data.noise, ref[7],
                        sensor_data.hum, ref[4], ref[5])

\* a classifier that lets a loud room override the state
ComfortStateLoud(sensor_data, ppd) ==
    IF sensor_data.occupancy # 0 /\ sensor_data.noise > 60000000 THEN "Kritis"
    ELSE get_status_from_ppd(ppd, sensor_data.occupancy)

\* line 569: status = get_status_from_ppd(ppd, sensor_data.occupancy)
ComfortState(sensor_data, ppd) == get_status_from_ppd(ppd, sensor_data.occupancy)

PrimaryConcern(thermal_severity, env_issues) ==
    LET thermal_problem == thermal_severity # "none"
        env_problem == \E i \in 1..Len(env_issues) :
                          env_issues[i].severity \in {"moderate", "severe"}
    IN  IF thermal_problem /\ env_problem THEN "both"
        ELSE IF thermal_problem THEN "thermal"
        ELSE IF env_problem THEN "environmental"
        ELSE "none"

HumDeviation(hum, hum_min, hum_max) ==
    IF hum < hum_min THEN Round1(hum - hum_min)
    ELSE IF hum > hum_max THEN Round1(hum - hum_max)
    ELSE 0

\* lines 565-635: evaluate from the solver's return to its own
EvaluateTail(sensor_data, ref, pmv) ==
    LET target_temp == ref[3]
        ppd == calculate_ppd(pmv)
        status == ComfortState(sensor_data, ppd)
        env == EnvScoreOf(sensor_data, ref)
        thermal_severity == get_thermal_severity(pmv)
        ac_control == determine_ac_control(pmv, ppd, sensor_data.temp, target_temp,
                                           sensor_data.occupancy, status)
    IN  IF ac_control.raised # "none" THEN Raised(ac_control.raised)
        ELSE Returned(
            [comfort |-> [pmv |-> pmv, ppd |-> ppd, score |-> env[1], state |-> status],
             ac_control |-> ac_control.value,
             target_temp |-> target_temp,
             target_hum_min |-> ref[4],
             target_hum_max |-> ref[5],
             target_lux |-> ref[6],
             target_noise_max |-> ref[7],
             env_score |-> env[1],
             env_score_breakdown |-> env[2],
             pmv_inputs |-> PmvInputs(sensor_data),
             temp_deviation |-> Round1(sensor_data.temp - target_temp),
             hum_deviation |-> HumDeviation(sensor_data.hum, ref[4], ref[5]),
             env_issues |-> env[3],
             primary_concern |-> PrimaryConcern(thermal_severity, env[3]),
             thermal_severity |-> thermal_severity])

(***************************************************************************)
(* analyze_comfort (main.py): evaluate, then the narration, then the       *)
(* response.                                                               *)
(***************************************************************************)

\* what generate_reason returns: the text parsed from the LLM's answer, or
\* the fallback text when the LLM call raises
Reasons == {"llm reason", "fallback reason"}

\* lines 49-60: analyze_comfort after evaluate, whose outcome is rule_result
AnalyzeComfortTail(rule_result, reason) ==
    IF rule_result.raised # "none" THEN Raised(rule_result.raised)
    ELSE LET recommendation == Recommendation([ac_control |-> rule_result.value.ac_control,
                                               reason |-> reason])
         IN  IF recommendation.raised # "none" THEN Raised(recommendation.raised)
             ELSE ComfortAnalysisResponse([Comfort |-> rule_result.value.comfort,
                                           Recommendation |-> recommendation.value])

(***************************************************************************)
(* The engine as a service: callers run evaluate, one step of the solver's *)
(* loop at a time.                                                         *)
(***************************************************************************)

Callers == {1}

\* the readings the callers send (floats in micro units); none of them puts
\* a score on a rounding tie, where a float's last bit would decide
Temps == {16000000, 22000000, 24000000, 26000000, 28000000, 30000000, 36000000}

Hums == {40000000, 60000000}

Noises == {40000000, 70000000}

Lights == {400000000, 900000000}

Occupancies == {0, 5, 20}

SensorData ==
    [hum : Hums, temp : Temps, noise : Noises, light_level : Lights,
     occupancy : Occupancies]

\* overlapped is history: whether another call ran while this one did
Idle == [pc |-> "idle", sensor_data |-> NoValue, ref |-> NoRow, f |-> NoValue,
         result |-> NoValue, overlapped |-> FALSE, response |-> NoValue]

\* a call is between its entry and its return or raise
Running(c) == call[c].pc \in {"tcl_loop", "heat_loss"}

\* the readings whose finished calls are kept for comparison
Anchors ==
    {r \in SensorData : r.temp = 28000000 /\ r.hum = 60000000
                        /\ r.noise = 40000000 /\ r.light_level = 900000000}

NoPrev == [seen |-> FALSE, sensor_data |-> NoValue, result |-> NoValue]

NoCall == [fn |-> "none", args |-> NoValue, pc |-> "none", ret |-> NoValue,
           locals |-> NoValue]

\* The service is not running while the engine is called directly.
NoService == [pc |-> "off"]

InitGlobals ==
    /\ REFERENCE_TABLE = ReferenceTable
    /\ PPD_STATUS_MAP = PpdStatusMap
    /\ STATUS_MAX_CORRECTION = StatusMaxCorrection

Init ==
    /\ InitGlobals
    /\ call = [c \in Callers |-> Idle]
    /\ prev = NoPrev
    /\ fn_call = NoCall
    /\ service = NoService

\* an evaluate that uses up the correction ceilings it has read
EvaluateGlobalsSpent ==
    /\ STATUS_MAX_CORRECTION' = [s \in DOMAIN STATUS_MAX_CORRECTION |-> 0]
    /\ UNCHANGED <<REFERENCE_TABLE, PPD_STATUS_MAP>>

\* an evaluate that reverses the reference table in place
EvaluateGlobalsReversed ==
    /\ REFERENCE_TABLE' = [i \in 1..Len(REFERENCE_TABLE) |->
                              REFERENCE_TABLE[Len(REFERENCE_TABLE) + 1 - i]]
    /\ UNCHANGED <<PPD_STATUS_MAP, STATUS_MAX_CORRECTION>>

\* the module globals when evaluate returns: it and the functions it calls
\* read them and assign to none
EvaluateGlobals == UNCHANGED <<REFERENCE_TABLE, PPD_STATUS_MAP, STATUS_MAX_CORRECTION>>

\* evaluate is entered: the reference row is looked up, the solver is entered
\* and its locals are set up to the initial guess of tcl
EvaluateEnter(c, r) ==
    /\ call[c].pc = "idle"
    /\ LET i == PmvInputs(r)
           entered == [pc |-> "tcl_loop", sensor_data |-> r,
                       ref |-> get_reference_for_occupancy(r.occupancy),
                       f |-> PmvFrame(i.ta, i.tr, i.vel, i.rh, i.met, i.clo),
                       result |-> NoValue, response |-> NoValue,
                       overlapped |-> \E d \in DOMAIN call \ {c} : Running(d)]
       IN  call' = [d \in DOMAIN call |->
                      IF d = c THEN entered
                      ELSE IF Running(d) THEN [call[d] EXCEPT !.overlapped = TRUE]
                      ELSE call[d]]
    /\ UNCHANGED <<REFERENCE_TABLE, PPD_STATUS_MAP, STATUS_MAX_CORRECTION, prev, fn_call, service>>

\* caller c is in the solver's loop, or past it at the heat-loss terms
InLoop(c) == call[c].pc = "tcl_loop"

AtHeatLoss(c) == call[c].pc = "heat_loss"

\* one pass of the for loop: update tcl, break on convergence, leave after
\* the last pass
PmvLoopStep(c) ==
    /\ call[c].pc = "tcl_loop"
    /\ LET g == TclUpdate(call[c].f)
       IN  call' = [call EXCEPT ![c].f = g,
                                ![c].pc = IF LoopExit(call[c].f, g) THEN "heat_loss"
                                          ELSE "tcl_loop"]
    /\ UNCHANGED <<REFERENCE_TABLE, PPD_STATUS_MAP, STATUS_MAX_CORRECTION, prev, fn_call, service>>

\* the solver returns and evaluate runs to its own return, or raises
EvaluateFinish(c) ==
    /\ call[c].pc = "heat_loss"
    /\ call' = [call EXCEPT ![c].pc = "done",
                            ![c].result = EvaluateTail(call[c].sensor_data, call[c].ref,
                                                       PmvResult(call[c].f))]
    /\ EvaluateGlobals
    /\ UNCHANGED <<prev, fn_call, service>>

\* the caller has taken the outcome; it may call again
EvaluateReturn(c) ==
    /\ call[c].pc = "done"
    /\ call' = [call EXCEPT ![c] = Idle]
    /\ UNCHANGED <<REFERENCE_TABLE, PPD_STATUS_MAP, STATUS_MAX_CORRECTION, prev, fn_call, service>>

\* analyze_comfort goes on from evaluate's outcome: the narration, then the
\* response is built and returned, or building it raises
AnalyzeComfortRespond(c) ==
    /\ call[c].pc = "done"
    /\ \E reason \in Reasons :
          call' = [call EXCEPT ![c].pc = "responded",
                               ![c].response = AnalyzeComfortTail(call[c].result, reason)]
    /\ UNCHANGED <<REFERENCE_TABLE, PPD_STATUS_MAP, STATUS_MAX_CORRECTION, prev, fn_call, service>>

\* the caller of analyze_comfort has taken its outcome
AnalyzeComfortReturn(c) ==
    /\ call[c].pc = "responded"
    /\ call' = [call EXCEPT ![c] = Idle]
    /\ UNCHANGED <<REFERENCE_TABLE, PPD_STATUS_MAP, STATUS_MAX_CORRECTION, prev, fn_call, service>>

\* history: keep the finished call of an anchor reading
Remember(c) ==
    /\ call[c].pc = "done"
    /\ call[c].sensor_data \in Anchors
    /\ prev' = [seen |-> TRUE, sensor_data |-> call[c].sensor_data,
                result |-> call[c].result]
    /\ UNCHANGED <<REFERENCE_TABLE, PPD_STATUS_MAP, STATUS_MAX_CORRECTION, call, fn_call, service>>

Next ==
    \E c \in Callers :
        \/ \E r \in SensorData : EvaluateEnter(c, r)
        \/ PmvLoopStep(c)
        \/ EvaluateFinish(c)
        \/ EvaluateReturn(c)
        \/ AnalyzeComfortRespond(c)
        \/ AnalyzeComfortReturn(c)
        \/ Remember(c)

Spec == Init /\ [][Next]_vars

\* a call that has started runs on: the solver's loop and the rest of
\* evaluate are straight-line code of the calling thread.  This is weak
\* fairness of PmvLoopStep(c) and of EvaluateFinish(c), WF_vars(A) written
\* out as []<>~ENABLED <<A>>_vars \/ []<><<A>>_vars: PmvLoopStep(c) is
\* enabled and changes call[c] exactly when InLoop(c) holds, EvaluateFinish(c)
\* exactly when AtHeatLoss(c) holds.
SpecFair ==
    /\ Spec
    /\ \A c \in Callers :
          /\ []<>(~InLoop(c)) \/ []<><<PmvLoopStep(c)>>_vars
          /\ []<>(~AtHeatLoss(c)) \/ []<><<EvaluateFinish(c)>>_vars

(***************************************************************************)
(* Two callers whose evaluate calls interleave step by step.               *)
(***************************************************************************)

ParCallers == {1, 2}

ParReadings ==
    {[temp |-> 28000000, hum |-> 60000000, noise |-> 40000000,
      light_level |-> 900000000, occupancy |-> 5],
     [temp |-> 30000000, hum |-> 60000000, noise |-> 70000000,
      light_level |-> 400000000, occupancy |-> 20]}

InitPar ==
    /\ InitGlobals
    /\ call = [c \in ParCallers |-> Idle]
    /\ prev = NoPrev
    /\ fn_call = NoCall
    /\ service = NoService

\* history: keep a finished call that ran with no other call beside it
RememberAlone(c) ==
    /\ call[c].pc = "done"
    /\ ~call[c].overlapped
    /\ prev' = [seen |-> TRUE, sensor_data |-> call[c].sensor_data,
                result |-> call[c].result]
    /\ UNCHANGED <<REFERENCE_TABLE, PPD_STATUS_MAP, STATUS_MAX_CORRECTION, call, fn_call, service>>

NextPar ==
    \E c \in ParCallers :
        \/ \E r \in ParReadings : EvaluateEnter(c, r)
        \/ PmvLoopStep(c)
        \/ EvaluateFinish(c)
        \/ EvaluateReturn(c)
        \/ RememberAlone(c)

SpecPar == InitPar /\ [][NextPar]_vars

(***************************************************************************)
(* The functions of the engine called on their own: one call, drawn from   *)
(* a grid of arguments, and its return.                                    *)
(***************************************************************************)

\* pmv at the solver's resolution of 0.01: -PmvGridMax/100 .. PmvGridMax/100
PmvGridMax == 300

PmvGrid == {p * 10000 : p \in -PmvGridMax..PmvGridMax}

\* ppd in steps of 0.01: -PpdGridBelow/100 .. PpdGridMax/100
PpdGridBelow == 100

PpdGridMax == 10100

PpdGrid == {p * 10000 : p \in -PpdGridBelow..PpdGridMax}

StatusOccupancies == {0, 1, 40}

\* occupancies looked up in the reference table: -RefOccBelow .. RefOccMax
RefOccBelow == 5

RefOccMax == 1005

AcOccupancies == {0, 5, 15, 20, 28, 40}

AcStatuses == {"Ideal", "Optimalisasi", "Peringatan", "Kritis", "Boros Energi", "Unknown"}

AcCurrentTemps == {20000000, 30000000}

\* relative humidity in whole percent: 0 .. HumGridMax
HumGridMax == 100

\* calculate_env_score as evaluate calls it: the limits of a row of the
\* reference table, with a lighting of 400 lux and a noise of 40 dB
EnvCalls ==
    {[lux_actual |-> 400000000, lux_target |-> ReferenceTable[i][6],
      noise_actual |-> 40000000, noise_max |-> ReferenceTable[i][7],
      hum_actual |-> h * 1000000, hum_min |-> ReferenceTable[i][4],
      hum_max |-> ReferenceTable[i][5]] :
        i \in 1..Len(ReferenceTable), h \in 0..HumGridMax}

\* lighting in steps of 50 lux around the target, noise in whole dB around
\* the limit, humidity in steps of 5 % outside the band
LuxStepsBelow == 10

LuxStepsAbove == 12

NoiseBelow == 2

NoiseOverMax == 22

HumStepsMax == 7

\* line 370, the weighted sum before it is rounded
EnvTotal(a) ==
    Mul6(LightingScore(a.lux_actual, a.lux_target), 350000)
        + Mul6(NoiseScore(a.noise_actual, a.noise_max), 350000)
        + Mul6(HumidityScore(a.hum_actual, a.hum_min, a.hum_max), 300000)

\* calculate_env_score on the three grids, for every row of the reference
\* table.  Calls whose weighted sum lies halfway between two tenths are left
\* out: round(total_score, 1) then depends on the representation error of
\* the float sum, which the fixed-point sum does not have.
EnvGridCalls ==
    {a \in {[lux_actual |-> ReferenceTable[i][6] + kl * 50000000,
             lux_target |-> ReferenceTable[i][6],
             noise_actual |-> ReferenceTable[i][7] + kn * 1000000,
             noise_max |-> ReferenceTable[i][7],
             hum_actual |-> (IF side = "dry" THEN ReferenceTable[i][4] - kh * 5000000
                             ELSE ReferenceTable[i][5] + kh * 5000000),
             hum_min |-> ReferenceTable[i][4],
             hum_max |-> ReferenceTable[i][5]] :
                i \in 1..Len(ReferenceTable), kl \in -LuxStepsBelow..LuxStepsAbove,
                kn \in -NoiseBelow..NoiseOverMax, kh \in 0..HumStepsMax,
                side \in {"dry", "humid"}} :
        /\ a.lux_actual >= 0
        /\ a.hum_actual >= 0 /\ a.hum_actual <= 100000000
        /\ EnvTotal(a) % 100000 # 50000}

FnCall(fn, args) ==
    [fn |-> fn, args |-> args, pc |-> "called", ret |-> NoValue, locals |-> NoValue]

\* determine_ac_control as evaluate calls it: the target of the occupancy's
\* row, and the ppd of the pmv or the ppd of a neutral vote
AcCalls(pmv) ==
    {FnCall("determine_ac_control",
            [pmv |-> pmv, ppd |-> ppd, current_temp |-> t,
             target_temp |-> ReferenceTable[CHOOSE i \in 1..Len(ReferenceTable) :
                                 ReferenceTable[i][1] <= o /\ o <= ReferenceTable[i][2]][3],
             occupancy |-> o, status |-> st]) :
        ppd \in {calculate_ppd(pmv), 5000000}, t \in AcCurrentTemps,
        o \in AcOccupancies, st \in AcStatuses}

InitFn ==
    /\ InitGlobals
    /\ call = [c \in Callers |-> Idle]
    /\ prev = NoPrev
    /\ service = NoService
    /\ \/ \E pmv \in PmvGrid : fn_call = FnCall("calculate_ppd", [pmv |-> pmv])
       \/ \E ppd \in PpdGrid : \E o \in StatusOccupancies :
             fn_call = FnCall("get_status_from_ppd", [ppd |-> ppd, occupancy |-> o])
       \/ \E pmv \in PmvGrid : fn_call \in AcCalls(pmv)
       \/ \E o \in -RefOccBelow..RefOccMax :
             fn_call = FnCall("get_reference_for_occupancy", [occupancy |-> o])
       \/ \E a \in EnvCalls \cup EnvGridCalls : fn_call = FnCall("calculate_env_score", a)

Return(ret, locals) ==
    /\ fn_call' = [fn_call EXCEPT !.pc = "done", !.ret = ret, !.locals = locals]
    /\ UNCHANGED <<REFERENCE_TABLE, PPD_STATUS_MAP, STATUS_MAX_CORRECTION, call, prev, service>>

ApplyPpd ==
    /\ fn_call.fn = "calculate_ppd" /\ fn_call.pc = "called"
    /\ Return(Returned(calculate_ppd(fn_call.args.pmv)), NoValue)

ApplyStatus ==
    /\ fn_call.fn = "get_status_from_ppd" /\ fn_call.pc = "called"
    /\ Return(Returned(get_status_from_ppd(fn_call.args.ppd, fn_call.args.occupancy)),
              NoValue)

\* the locals kept are the branch taken and the setpoint before the clamp
ApplyAc ==
    /\ fn_call.fn = "determine_ac_control" /\ fn_call.pc = "called"
    /\ LET a == fn_call.args
       IN  Return(determine_ac_control(a.pmv, a.ppd, a.current_temp, a.target_temp,
                                       a.occupancy, a.status),
                  AcFrame(a.pmv, a.target_temp, a.occupancy, a.status))

ApplyEnv ==
    /\ fn_call.fn = "calculate_env_score" /\ fn_call.pc = "called"
    /\ LET a == fn_call.args
       IN  Return(Returned(calculate_env_score(a.lux_actual, a.lux_target, a.noise_actual,
                                               a.noise_max, a.hum_actual, a.hum_min,
                                               a.hum_max)),
                  NoValue)

ApplyRef ==
    /\ fn_call.fn = "get_reference_for_occupancy" /\ fn_call.pc = "called"
    /\ Return(Returned(get_reference_for_occupancy(fn_call.args.occupancy)), NoValue)

NextFn == ApplyPpd \/ ApplyStatus \/ ApplyAc \/ ApplyRef \/ ApplyEnv

SpecFn == InitFn /\ [][NextFn]_vars

(***************************************************************************)
(* The MQTT service (main.py): main runs fetch_and_process in a loop; each *)
(* cycle connects, collects the messages of the subscribed topics, merges  *)
(* them into persistent_data, evaluates the combined reading and publishes *)
(* the response.  Topics are sequences of levels, dicts are functions.     *)
(***************************************************************************)

\* Python's None, as a value a dict can be compared with
None == ("None" :> TRUE)

EmptyDict == [k \in {} |-> 0]

\* d.update(p)
DictUpdate(d, p) ==
    [k \in DOMAIN d \cup DOMAIN p |-> IF k \in DOMAIN p THEN p[k] ELSE d[k]]

\* MQTT_TOPIC_INPUT = "sensor/#,building/room1/#", split at the commas
MQTT_TOPICS_INPUT == << <<"sensor", "#">>, <<"building", "room1", "#">> >>

IsLevel(level) == level \notin {"#", "*"}

\* topic.replace("/#", "").replace("/*", "")
BaseTopic(topic) ==
    IF topic = << >> THEN topic
    ELSE <<Head(topic)>> \o SelectSeq(Tail(topic), IsLevel)

MQTT_BASE_TOPICS == [i \in DOMAIN MQTT_TOPICS_INPUT |-> BaseTopic(MQTT_TOPICS_INPUT[i])]

BaseTopics == {MQTT_BASE_TOPICS[i] : i \in DOMAIN MQTT_BASE_TOPICS}

\* the broker's side of client.subscribe(topic): the topic filter matches a
\* message's topic level by level, # standing for any levels that remain
RECURSIVE Matches(_, _)
Matches(filter, topic) ==
    IF filter = << >> THEN topic = << >>
    ELSE IF Head(filter) = "#" THEN TRUE
    ELSE IF topic = << >> THEN FALSE
    ELSE Head(filter) = Head(topic) /\ Matches(Tail(filter), Tail(topic))

\* the topics messages arrive on
MsgTopics ==
    {<<"sensor">>, <<"sensor", "data">>, <<"building", "room1">>,
     <<"building", "room1", "data">>, <<"lobby", "data">>}

\* the payloads: JSON objects of readings (floats in micro units), a JSON
\* number, and bytes that are no JSON
Payloads ==
    {[json |-> "object", obj |-> ("temp" :> 24000000)],
     [json |-> "object", obj |-> ("temp" :> 30000000)],
     [json |-> "object", obj |-> ("hum" :> 60000000)],
     [json |-> "object", obj |-> ("occupancy" :> 5)],
     [json |-> "number", obj |-> EmptyDict],
     [json |-> "invalid", obj |-> EmptyDict]}

Messages == [topic : MsgTopics, payload : Payloads]

NoMessage == [topic |-> << >>, payload |-> [json |-> "none", obj |-> EmptyDict]]

\* collected_data = {topic: None for topic in MQTT_BASE_TOPICS}
NothingCollected == [topic \in BaseTopics |-> None]

\* msg.topic.split('/')[0], as a topic of one level
FirstLevel(topic) == <<Head(topic)>>

\* on_message: the locals of fetch_and_process it assigns, after the call.
\* json.loads raises on bytes that are no JSON and dict.update raises on a
\* payload that is no object; the handler catches both
on_message(frame, msg) ==
    IF msg.payload.json = "invalid" THEN frame
    ELSE LET base_topic == FirstLevel(msg.topic)
         IN  IF base_topic \in DOMAIN frame.collected_data
             THEN LET opened == IF frame.collected_data[base_topic] = None
                                THEN [frame.collected_data EXCEPT ![base_topic] = EmptyDict]
                                ELSE frame.collected_data
                  IN  IF msg.payload.json = "object"
                      THEN [collected_data |->
                                [opened EXCEPT ![base_topic] = DictUpdate(@, msg.payload.obj)],
                            data_received |-> TRUE]
                      ELSE [collected_data |-> opened, data_received |-> frame.data_received]
             ELSE frame

\* lines 122-127: the cycle's data is merged into the persistent storage
MergeCollected(persistent_data, collected_data) ==
    [topic \in DOMAIN persistent_data |->
        IF collected_data[topic] # None
        THEN DictUpdate(IF persistent_data[topic] = None THEN EmptyDict
                        ELSE persistent_data[topic],
                        collected_data[topic])
        ELSE persistent_data[topic]]

\* lines 130-134: the topics' dicts are combined in the order of the dict's keys
RECURSIVE CombineFrom(_, _)
CombineFrom(persistent_data, i) ==
    IF i = 0 THEN EmptyDict
    ELSE LET data == persistent_data[MQTT_BASE_TOPICS[i]]
             combined_data == CombineFrom(persistent_data, i - 1)
         IN  IF data # None THEN DictUpdate(combined_data, data) ELSE combined_data

Combine(persistent_data) == CombineFrom(persistent_data, Len(MQTT_BASE_TOPICS))

\* combined_data.get(key, combined_data.get(other)) is not None
Has(combined_data, key, other) == {key, other} \cap DOMAIN combined_data # {}

\* combined_data.get(key, combined_data.get(other, default))
Get(combined_data, key, other, default) ==
    IF key \in DOMAIN combined_data THEN combined_data[key]
    ELSE IF other \in DOMAIN combined_data THEN combined_data[other]
    ELSE default

\* lines 141-147: SensorData is built; hum and temp have no default and the
\* model rejects None
BuildSensorData(combined_data) ==
    IF Has(combined_data, "hum", "humidity") /\ Has(combined_data, "temp", "temperature")
    THEN Returned([hum |-> Get(combined_data, "hum", "humidity", 0),
                   temp |-> Get(combined_data, "temp", "temperature", 0),
                   noise |-> Get(combined_data, "noise", "noise_level", 40000000),
                   light_level |-> Get(combined_data, "light_level", "lux", 300000000),
                   occupancy |-> Get(combined_data, "occupancy", "occupancy", 1)])
    ELSE Raised("ValidationError")

\* what evaluate hands back to analyze_comfort: it raises, or it returns a
\* result of which analyze_comfort passes on comfort and ac_control
EvaluateOutcomes ==
    {Raised("ValidationError"),
     Returned([comfort |-> "comfort", ac_control |-> "ac_control"])}

\* lines 136-165: the cycle from the combined data on; publishing fails when
\* the client cannot reconnect
ProcessOutcome(combined_data, rule_result, reason, reconnects) ==
    IF combined_data = EmptyDict THEN "no data"
    ELSE IF BuildSensorData(combined_data).raised # "none" THEN "error"
    ELSE IF AnalyzeComfortTail(rule_result, reason).raised # "none" THEN "error"
    ELSE IF ~reconnects THEN "error"
    ELSE "published"

\* a loop that an error in the cycle ends
CycleEndFatal(outcome) == IF outcome = "error" THEN "stopped" ELSE "sleeping"

\* main, lines 187-190: whatever the cycle did, fetch_and_process returns
\* and the loop sleeps FETCH_INTERVAL before the next cycle
CycleEnd(outcome) == "sleeping"

\* received and last_msg are history: per subscribed base topic the latest
\* value of every key that arrived for its filter, and the message that
\* on_message handled last in the running cycle
InitService ==
    [pc |-> "sleeping",
     connected |-> FALSE,
     persistent_data |-> [topic \in BaseTopics |-> None],
     collected_data |-> NothingCollected,
     data_received |-> FALSE,
     published |-> 0,
     outcome |-> "none",
     evaluated |-> NoValue,
     interrupted |-> FALSE,
     received |-> [topic \in BaseTopics |-> EmptyDict],
     last_msg |-> NoMessage]

InitSvc ==
    /\ InitGlobals
    /\ call = [c \in Callers |-> Idle]
    /\ prev = NoPrev
    /\ fn_call = NoCall
    /\ service = InitService

EngineIdle == UNCHANGED <<REFERENCE_TABLE, PPD_STATUS_MAP, STATUS_MAX_CORRECTION, call, prev, fn_call>>

\* lines 105-115: the cycle starts, the client connects and subscribes
FetchConnect ==
    /\ service.pc = "sleeping"
    /\ service' = [service EXCEPT !.pc = "collecting", !.connected = TRUE,
                                  !.collected_data = NothingCollected,
                                  !.data_received = FALSE,
                                  !.last_msg = NoMessage]
    /\ EngineIdle

\* line 108 raises: the handler of lines 167-172 disconnects the client
FetchConnectFails ==
    /\ service.pc = "sleeping"
    /\ service' = [service EXCEPT !.pc = CycleEnd("error"), !.connected = FALSE,
                                  !.outcome = "error", !.evaluated = NoValue,
                                  !.last_msg = NoMessage]
    /\ EngineIdle

\* the network loop delivers a message of a subscribed topic to on_message
OnMessage(msg) ==
    /\ service.pc = "collecting"
    /\ \E i \in DOMAIN MQTT_TOPICS_INPUT : Matches(MQTT_TOPICS_INPUT[i], msg.topic)
    /\ LET frame == on_message([collected_data |-> service.collected_data,
                                data_received |-> service.data_received], msg)
       IN  service' = [service EXCEPT
                          !.collected_data = frame.collected_data,
                          !.data_received = frame.data_received,
                          !.last_msg = msg,
                          !.received = [topic \in BaseTopics |->
                              IF msg.payload.json = "object"
                                 /\ \E i \in DOMAIN MQTT_TOPICS_INPUT :
                                       /\ MQTT_BASE_TOPICS[i] = topic
                                       /\ Matches(MQTT_TOPICS_INPUT[i], msg.topic)
                              THEN DictUpdate(service.received[topic], msg.payload.obj)
                              ELSE service.received[topic]]]
    /\ EngineIdle

\* lines 118-172: the collection ends, the client disconnects, the data is
\* merged and combined, and the cycle runs to its return
FetchProcess ==
    /\ service.pc = "collecting"
    /\ \E rule_result \in EvaluateOutcomes, reason \in Reasons, reconnects \in BOOLEAN :
          LET persistent_data == MergeCollected(service.persistent_data,
                                                service.collected_data)
              combined_data == Combine(persistent_data)
              sensor_data == BuildSensorData(combined_data)
              outcome == ProcessOutcome(combined_data, rule_result, reason, reconnects)
          IN  service' = [service EXCEPT
                             !.pc = CycleEnd(outcome),
                             !.connected = FALSE,
                             !.persistent_data = persistent_data,
                             !.collected_data = NothingCollected,
                             !.data_received = FALSE,
                             !.published = IF outcome = "published" THEN @ + 1 ELSE @,
                             !.outcome = outcome,
                             !.evaluated = IF combined_data # EmptyDict
                                              /\ sensor_data.raised = "none"
                                           THEN sensor_data.value ELSE NoValue,
                             !.last_msg = NoMessage]
    /\ EngineIdle

\* lines 192-195: KeyboardInterrupt is no Exception; it passes the handler
\* of fetch_and_process and ends main's loop
KeyboardInterrupt ==
    /\ service.pc \in {"sleeping", "collecting"}
    /\ service' = [service EXCEPT !.pc = "stopped", !.interrupted = TRUE]
    /\ EngineIdle

NextSvc ==
    \/ FetchConnect
    \/ FetchConnectFails
    \/ \E msg \in Messages : OnMessage(msg)
    \/ FetchProcess
    \/ KeyboardInterrupt

SpecSvc == InitSvc /\ [][NextSvc]_vars

(***************************************************************************)
(* Properties of evaluate (specification Spec)                             *)
(***************************************************************************)

Finished(c) == call[c].pc = "done"

HasReturned(c) == Finished(c) /\ call[c].result.raised = "none"

SameOutcome(a, b) ==
    /\ a.raised = b.raised
    /\ a.raised = "none" => a.value = b.value

\* C1: for every reading the comfort state evaluate returns is "Boros Energi"
\* if and only if occupancy == 0 (so a reading with occupancy 0 gets that
\* state), and for occupancy # 0 it is one of Ideal, Optimalisasi,
\* Peringatan, Kritis.
C1_StateIffOccupancy ==
    \A c \in Callers :
        Finished(c) =>
            LET d == call[c].sensor_data
                r == call[c].result
            IN  /\ d.occupancy = 0 =>
                      r.raised = "none" /\ r.value.comfort.state = "Boros Energi"
                /\ (d.occupancy # 0 /\ r.raised = "none") =>
                      r.value.comfort.state \in
                          {"Ideal", "Optimalisasi", "Peringatan", "Kritis"}

\* C5: evaluate is deterministic: a call with the same SensorData as an
\* earlier call, whatever calls ran in between, has the same outcome, equal
\* in every field of the result.
C5_Deterministic ==
    \A c \in Callers :
        (Finished(c) /\ prev.seen /\ prev.sensor_data = call[c].sensor_data)
            => SameOutcome(prev.result, call[c].result)

\* a reading evaluated again after another call, both calls returning
C5_SameReadingAgain ==
    \E c \in Callers :
        /\ HasReturned(c) /\ prev.seen
        /\ prev.sensor_data = call[c].sensor_data
        /\ prev.result.raised = "none"

OnlyTempDiffers(a, b) ==
    /\ a.temp # b.temp
    /\ a.hum = b.hum /\ a.noise = b.noise /\ a.light_level = b.light_level
    /\ a.occupancy = b.occupancy

\* C6: two readings that differ only in temperature get the same env_score,
\* the same env_score_breakdown and the same list of environmental issues.
C6_TemperatureBlindScore ==
    \A c \in Callers :
        (HasReturned(c) /\ prev.seen /\ prev.result.raised = "none"
         /\ OnlyTempDiffers(prev.sensor_data, call[c].sensor_data))
            => LET v == call[c].result.value
                   w == prev.result.value
               IN  /\ v.env_score = w.env_score
                   /\ v.comfort.score = w.comfort.score
                   /\ v.env_score_breakdown = w.env_score_breakdown
                   /\ v.env_issues = w.env_issues

\* two returned calls at different temperatures, with issues to compare
C6_OtherTemperature ==
    \E c \in Callers :
        /\ HasReturned(c) /\ prev.seen /\ prev.result.raised = "none"
        /\ OnlyTempDiffers(prev.sensor_data, call[c].sensor_data)
        /\ call[c].result.value.comfort.pmv # prev.result.value.comfort.pmv
        /\ call[c].result.value.env_issues # << >>

OnlyNoiseLightDiffer(a, b) ==
    /\ a.noise # b.noise \/ a.light_level # b.light_level
    /\ a.temp = b.temp /\ a.hum = b.hum /\ a.occupancy = b.occupancy

\* C7: two readings that differ only in noise and illuminance get the same
\* pmv, ppd, comfort state, thermal severity and ACControl (and the same
\* outcome when evaluate raises), whatever their scores are.
C7_ScoreBlindState ==
    \A c \in Callers :
        (Finished(c) /\ prev.seen
         /\ OnlyNoiseLightDiffer(prev.sensor_data, call[c].sensor_data))
            => /\ call[c].result.raised = prev.result.raised
               /\ call[c].result.raised = "none" =>
                     LET v == call[c].result.value
                         w == prev.result.value
                     IN  /\ v.comfort.pmv = w.comfort.pmv
                         /\ v.comfort.ppd = w.comfort.ppd
                         /\ v.comfort.state = w.comfort.state
                         /\ v.thermal_severity = w.thermal_severity
                         /\ v.ac_control = w.ac_control

\* two returned calls whose scores differ
C7_OtherScore ==
    \E c \in Callers :
        /\ HasReturned(c) /\ prev.seen /\ prev.result.raised = "none"
        /\ OnlyNoiseLightDiffer(prev.sensor_data, call[c].sensor_data)
        /\ call[c].result.value.comfort.score # prev.result.value.comfort.score

\* C8: whenever evaluate returns a result, comfort.pmv lies in [-3, 3] and
\* comfort.ppd lies in [5, 100].
C8_PmvPpdRanges ==
    \A c \in Callers :
        HasReturned(c) =>
            LET v == call[c].result.value.comfort
            IN  /\ -3000000 <= v.pmv /\ v.pmv <= 3000000
                /\ 5000000 <= v.ppd /\ v.ppd <= 100000000

\* a returned result whose vote the solver computed above 3 and clamped
C8_ClampedVote ==
    \E c \in Callers :
        /\ HasReturned(c)
        /\ RawPmv(call[c].f) > 3000000
        /\ call[c].result.value.comfort.pmv = 3000000
        /\ call[c].result.value.comfort.ppd > 99000000

(***************************************************************************)
(* Properties of the functions called on their own (specification SpecFn)  *)
(***************************************************************************)

Done(fn) == fn_call.fn = fn /\ fn_call.pc = "done"

\* C2: with occupancy == 0 the AC policy returns, without an error, the
\* ACControl {setpoint 24, mode off, fan auto}, leaving by its first branch.
C2_VacantPolicy ==
    (Done("determine_ac_control") /\ fn_call.args.occupancy = 0)
        => /\ fn_call.ret.raised = "none"
           /\ fn_call.ret.value = [temp |-> 24, mode |-> "off", fan |-> "auto"]
           /\ fn_call.locals.branch = "vacant"

\* the status evaluate passes along with this pmv and occupancy
StatusOfVote(a) ==
    /\ a.ppd = calculate_ppd(a.pmv)
    /\ a.status = get_status_from_ppd(a.ppd, a.occupancy)

\* C3: for every status s, every target of the reference table and every
\* pmv in [-3, 3] that occurs with s, the setpoint before the [16, 30] clamp
\* is within STATUS_MAX_CORRECTION[s] of round(targetTemp).
C3_CorrectionCeiling ==
    (Done("determine_ac_control") /\ StatusOfVote(fn_call.args))
        => Abs(fn_call.locals.ac_temp - RoundInt(fn_call.args.target_temp)) * 1000000
              <= StatusMaxCorrection[fn_call.args.status]

\* C4: every call of the AC policy yields a valid ACControl: constructing it
\* does not fail, the setpoint is an integer in [16, 30], the mode is one of
\* cool, fan, dry, auto, off and the fan one of auto, low, medium, high.
C4_ValidACControl ==
    Done("determine_ac_control")
        => /\ fn_call.ret.raised = "none"
           /\ fn_call.ret.value.temp \in 16..30
           /\ fn_call.ret.value.mode \in {"cool", "fan", "dry", "auto", "off"}
           /\ fn_call.ret.value.fan \in {"auto", "low", "medium", "high"}

\* C9: calculate_ppd is even, calculate_ppd(x) = calculate_ppd(-x) for every
\* x of the grid, and calculate_ppd(0) = 5.0.
C9_EvenPpd ==
    Done("calculate_ppd")
        => /\ fn_call.ret.value = calculate_ppd(-fn_call.args.pmv)
           /\ fn_call.args.pmv = 0 => fn_call.ret.value = 5000000

\* the mapper has returned for a cold vote, well above the minimum
C9_ColdVote ==
    /\ Done("calculate_ppd")
    /\ fn_call.args.pmv = -1500000
    /\ fn_call.ret.value > 50000000

\* C10: for occupancy # 0, ppd <= 10 is Ideal, 10 < ppd <= 25 Optimalisasi,
\* 25 < ppd <= 50 Peringatan, 50 < ppd <= 100 Kritis, and a ppd in no bucket
\* (above 100) is Kritis; each call gives one status.
C10_Buckets ==
    (Done("get_status_from_ppd") /\ fn_call.args.occupancy # 0)
        => LET ppd == fn_call.args.ppd
           IN  fn_call.ret.value =
                  IF ppd <= 10000000 THEN "Ideal"
                  ELSE IF ppd <= 25000000 THEN "Optimalisasi"
                  ELSE IF ppd <= 50000000 THEN "Peringatan"
                  ELSE "Kritis"

\* the classifier has returned for ppd 10.01, just above the first bucket
C10_JustAboveIdeal ==
    /\ Done("get_status_from_ppd")
    /\ fn_call.args.occupancy # 0
    /\ fn_call.args.ppd = 10010000
    /\ fn_call.ret.value = "Optimalisasi"

\* C11: get_reference_for_occupancy returns a row for every integer
\* occupancy and never raises: the first row, in table order, whose range
\* occMin..occMax holds the occupancy, and the last row (31-999) when no
\* row does.
C11_FirstBandOrLast ==
    Done("get_reference_for_occupancy")
        => LET o == fn_call.args.occupancy
               Holds(i) == ReferenceTable[i][1] <= o /\ o <= ReferenceTable[i][2]
               rows == 1..Len(ReferenceTable)
           IN  /\ fn_call.ret.raised = "none"
               /\ \A i \in rows :
                     (Holds(i) /\ \A j \in 1..(i - 1) : ~Holds(j))
                         => fn_call.ret.value = ReferenceTable[i]
               /\ (\A i \in rows : ~Holds(i))
                     => fn_call.ret.value = <<31, 999, 28500000, 71000000, 75000000,
                                              600000000, 60000000>>

\* the lookup has returned the last row for an occupancy no row holds
C11_BeyondEveryBand ==
    /\ Done("get_reference_for_occupancy")
    /\ fn_call.args.occupancy = 1000
    /\ fn_call.ret.raised = "none"
    /\ fn_call.ret.value[1] = 31

(***************************************************************************)
(* Properties of interleaved calls (specification SpecPar)                 *)
(***************************************************************************)

\* C12: under any interleaving of evaluate calls each call has the outcome
\* the same reading has when its call runs alone, and no step of evaluate
\* writes REFERENCE_TABLE, PPD_STATUS_MAP or STATUS_MAX_CORRECTION.
C12_InterleavingSafe ==
    /\ [](\A c \in DOMAIN call :
            (Finished(c) /\ prev.seen /\ prev.sensor_data = call[c].sensor_data)
                => SameOutcome(prev.result, call[c].result))
    /\ [][UNCHANGED <<REFERENCE_TABLE, PPD_STATUS_MAP, STATUS_MAX_CORRECTION>>]_vars

\* a call that ran beside another call has returned, the other caller is in
\* the solver's loop, and the same reading has been evaluated alone
C12_OverlappedCall ==
    \E c \in DOMAIN call : \E d \in DOMAIN call \ {c} :
        /\ HasReturned(c) /\ call[c].overlapped
        /\ call[d].pc = "tcl_loop" /\ call[d].f.n > 0
        /\ prev.seen /\ prev.sensor_data = call[c].sensor_data

(***************************************************************************)
(* Properties of analyze_comfort (specification Spec)                      *)
(***************************************************************************)

\* C13: for every reading evaluate returns a result for, analyze_comfort
\* returns a response that carries the Comfort and the ACControl as evaluate
\* computed them; the narration adds the reason and changes or drops nothing.
C13_ResponseCarriesResult ==
    \A c \in Callers :
        (call[c].pc = "responded" /\ call[c].result.raised = "none")
            => /\ call[c].response.raised = "none"
               /\ call[c].response.value.Comfort = call[c].result.value.comfort
               /\ "ac_control" \in DOMAIN call[c].response.value.Recommendation
               /\ call[c].response.value.Recommendation.ac_control
                     = call[c].result.value.ac_control
               /\ call[c].response.value.Recommendation.reason \in Reasons

(***************************************************************************)
(* Properties of the AC policy (specification SpecFn)                      *)
(***************************************************************************)

Occupied(fn) == Done(fn) /\ fn_call.args.occupancy >= 1

Corrected == Occupied("determine_ac_control") /\ fn_call.locals.branch = "corrected"

\* C14: for occupancy >= 1 and a thermal severity other than none, the
\* adjustment applied to the target is min(raw adjustment, ceiling of the
\* status), hence never above the ceiling however large the raw adjustment;
\* for Ideal and Boros Energi it is 0 and the setpoint is round(targetTemp)
\* for every pmv.
C14_AdjustmentCapped ==
    LET a == fn_call.args
        l == fn_call.locals
    IN  /\ (Corrected /\ a.status \in DOMAIN StatusMaxCorrection)
              => /\ l.base_adjustment
                       = BaseAdjustment(get_thermal_severity(a.pmv), Abs(a.pmv))
                 /\ l.temp_adjustment
                       = Min2(l.base_adjustment, StatusMaxCorrection[a.status])
                 /\ l.temp_adjustment <= StatusMaxCorrection[a.status]
                 /\ a.status \in {"Ideal", "Boros Energi"} => l.temp_adjustment = 0
                 /\ fn_call.ret.raised = "none"
                       => fn_call.ret.value.temp
                             = ClampSetpoint(RoundInt(IF a.pmv > 0
                                                      THEN a.target_temp - l.temp_adjustment
                                                      ELSE a.target_temp + l.temp_adjustment))
        /\ (Occupied("determine_ac_control") /\ a.status \in {"Ideal", "Boros Energi"})
              => /\ l.ac_temp = RoundInt(a.target_temp)
                 /\ fn_call.ret.raised = "none"
                       => fn_call.ret.value.temp = RoundInt(a.target_temp)

\* a severe vote under Optimalisasi: the raw adjustment is above the ceiling
\* of 1.5 and the call has returned a setpoint
C14_CeilingBites ==
    /\ Corrected
    /\ fn_call.args.status = "Optimalisasi"
    /\ fn_call.locals.base_adjustment > 2500000
    /\ fn_call.locals.temp_adjustment = 1500000
    /\ fn_call.ret.raised = "none"

\* C15: for occupancy >= 1 and |pmv| <= 0.5 the policy returns the setpoint
\* round(targetTemp) with mode auto and fan auto, whatever the status, the
\* ppd and the current temperature are, and applies no correction.
C15_NeutralZone ==
    (Occupied("determine_ac_control") /\ Abs(fn_call.args.pmv) <= 500000)
        => /\ fn_call.locals.branch = "neutral"
           /\ fn_call.locals.temp_adjustment = NoValue
           /\ fn_call.ret.raised = "none"
           /\ fn_call.ret.value
                 = [temp |-> RoundInt(fn_call.args.target_temp), mode |-> "auto", fan |-> "auto"]

\* the (mode, fan) pair C16 gives for a vote past the neutral zone
C16_Fan(abs_pmv) ==
    IF abs_pmv <= 800000 THEN "auto"
    ELSE IF abs_pmv <= 1000000 THEN "low"
    ELSE IF abs_pmv <= 1500000 THEN "medium"
    ELSE "high"

C16_Mode(pmv) ==
    IF pmv > 0 THEN "cool"
    ELSE IF Abs(pmv) <= 1000000 THEN "auto"
    ELSE IF Abs(pmv) <= 1500000 THEN "dry"
    ELSE "fan"

\* C16: for occupancy >= 1 and |pmv| > 0.5 the returned fan is auto, low,
\* medium, high over (0.5, 0.8], (0.8, 1.0], (1.0, 1.5], above 1.5; the
\* returned mode is cool for pmv > 0 and auto, dry, fan for a mildly,
\* moderately, severely cold vote; status and target do not matter.
C16_ModeAndFan ==
    (Occupied("determine_ac_control") /\ Abs(fn_call.args.pmv) > 500000)
        => /\ fn_call.locals.fan_speed = C16_Fan(Abs(fn_call.args.pmv))
           /\ fn_call.locals.mode = C16_Mode(fn_call.args.pmv)
           /\ fn_call.ret.raised = "none"
           /\ fn_call.ret.value.fan = C16_Fan(Abs(fn_call.args.pmv))
           /\ fn_call.ret.value.mode = C16_Mode(fn_call.args.pmv)

\* the ppd values and measured temperatures the policy is compared over
C17_Ppds == {fn_call.args.ppd, calculate_ppd(fn_call.args.pmv), 5000000, 100000000}

C17_CurrentTemps == AcCurrentTemps \cup {fn_call.args.current_temp, fn_call.args.target_temp}

\* C17: for fixed pmv, target, occupancy and status the outcome of the AC
\* policy is the same for every current_temp and every ppd passed to it;
\* the setpoint is an offset from the target, not from the measured
\* temperature.
C17_TrajectoryCentric ==
    Done("determine_ac_control")
        => LET a == fn_call.args
               l == fn_call.locals
           IN  /\ \A ppd \in C17_Ppds : \A t \in C17_CurrentTemps :
                     SameOutcome(fn_call.ret,
                                 determine_ac_control(a.pmv, ppd, t, a.target_temp,
                                                      a.occupancy, a.status))
               /\ l.branch = "corrected"
                     => l.ac_temp = RoundInt(IF a.pmv > 0 THEN a.target_temp - l.temp_adjustment
                                             ELSE a.target_temp + l.temp_adjustment)
               /\ l.branch = "neutral" => l.ac_temp = RoundInt(a.target_temp)

\* a warm vote in a room measured at 20 degrees with a target of 26.5: the
\* setpoint returned is below the target and above the measured temperature
C17_ColdRoomWarmVote ==
    /\ Done("determine_ac_control")
    /\ fn_call.locals.branch = "corrected"
    /\ fn_call.args.pmv > 0
    /\ fn_call.args.current_temp = 20000000
    /\ fn_call.args.target_temp = 26500000
    /\ fn_call.args.ppd # calculate_ppd(fn_call.args.pmv)
    /\ fn_call.ret.raised = "none"
    /\ fn_call.ret.value.temp \in 23..26

\* the raw adjustment as the policy computes it from |pmv|
C18_Raw(abs_pmv) == BaseAdjustment(get_thermal_severity(abs_pmv), abs_pmv)

\* C18: the raw adjustment is boundary-matched and non-decreasing in |pmv| on
\* (0.5, 3]: mild and moderate ramps both give 1.25 at 1.0, moderate and
\* severe both 2.0 at 1.5, the mild ramp starts at 0.5, and a larger |pmv|
\* never gives a smaller raw adjustment.
C18_RampsMonotone ==
    Corrected
        => LET x == Abs(fn_call.args.pmv)
           IN  /\ fn_call.locals.base_adjustment = C18_Raw(x)
               /\ \A y \in {x - 10000, x - 1, 1000000, 1500000} :
                     (500000 < y /\ y <= x) => C18_Raw(y) <= fn_call.locals.base_adjustment
               /\ \A y \in {x + 1, x + 10000} : C18_Raw(x) <= C18_Raw(y)
               /\ BaseAdjustment("mild", 500000) = 500000
               /\ BaseAdjustment("mild", 1000000) = 1250000
               /\ BaseAdjustment("moderate", 1000000) = 1250000
               /\ BaseAdjustment("moderate", 1500000) = 2000000
               /\ BaseAdjustment("severe", 1500000) = 2000000

\* the first vote of the grid past the moderate/severe boundary
C18_JustSevere ==
    /\ Corrected
    /\ Abs(fn_call.args.pmv) = 1510000
    /\ fn_call.locals.base_adjustment = 2006700
    /\ C18_Raw(1500000) = 2000000

(***************************************************************************)
(* Properties of the solver's loop (specification SpecFair)                *)
(***************************************************************************)

PastLoop(c) == call[c].pc \in {"heat_loss", "done", "responded"}

Converged(f) == Abs(f.tcl - f.tcl_old) < Tolerance

HumidityIssuesOf(ret) ==
    {i \in 1..Len(ret.value[3]) : ret.value[3][i].factor = "humidity"}

\* C20: a humidity issue is emitted if and only if the humidity is more
\* than 10 below humMin or more than 10 above humMax; on either side its
\* severity is severe when the humidity is more than 20 outside the band
\* and moderate otherwise.
C20_HumidityIssue ==
    Done("calculate_env_score")
        => LET a == fn_call.args
               issues == fn_call.ret.value[3]
               outside10 == \/ a.hum_actual < a.hum_min - 10000000
                            \/ a.hum_actual > a.hum_max + 10000000
               outside20 == \/ a.hum_actual < a.hum_min - 20000000
                            \/ a.hum_actual > a.hum_max + 20000000
           IN  /\ fn_call.ret.raised = "none"
               /\ (HumidityIssuesOf(fn_call.ret) # {}) <=> outside10
               /\ \A i \in HumidityIssuesOf(fn_call.ret) :
                     issues[i].severity = IF outside20 THEN "severe" ELSE "moderate"

\* the place of a factor in the order lighting, noise, humidity
FactorRank(factor) ==
    CASE factor = "lighting" -> 1
      [] factor = "noise" -> 2
      [] factor = "humidity" -> 3
      [] OTHER -> 0

\* the issues of one factor among the issues of a call
IssuesOfFactor(issues, factor) == SelectSeq(issues, LAMBDA e : e.factor = factor)

\* C21: calculate_env_score emits at most one issue per factor, so at most
\* three, always in the order lighting, noise, humidity; every issue has a
\* factor among lighting, noise, humidity and a severity among moderate,
\* severe; the issue of a factor does not depend on the other two factors.
C21_IssuesWellFormed ==
    Done("calculate_env_score")
        => LET a == fn_call.args
               issues == fn_call.ret.value[3]
               \* the same call with the other factors at rest
               onlyLux == calculate_env_score(a.lux_actual, a.lux_target, a.noise_max,
                                              a.noise_max, a.hum_min, a.hum_min, a.hum_max)[3]
               onlyNoise == calculate_env_score(a.lux_target, a.lux_target, a.noise_actual,
                                                a.noise_max, a.hum_min, a.hum_min, a.hum_max)[3]
               onlyHum == calculate_env_score(a.lux_target, a.lux_target, a.noise_max,
                                              a.noise_max, a.hum_actual, a.hum_min, a.hum_max)[3]
           IN  /\ fn_call.ret.raised = "none"
               /\ Len(issues) <= 3
               /\ \A i \in 1..Len(issues) :
                     /\ issues[i].factor \in {"lighting", "noise", "humidity"}
                     /\ issues[i].severity \in {"moderate", "severe"}
               /\ \A i \in 1..Len(issues) : \A j \in 1..Len(issues) :
                     i < j => FactorRank(issues[i].factor) < FactorRank(issues[j].factor)
               /\ IssuesOfFactor(issues, "lighting") = onlyLux
               /\ IssuesOfFactor(issues, "noise") = onlyNoise
               /\ IssuesOfFactor(issues, "humidity") = onlyHum

\* a call that returned three issues, one per factor
C21_ThreeIssues ==
    /\ Done("calculate_env_score")
    /\ fn_call.ret.raised = "none"
    /\ Len(fn_call.ret.value[3]) = 3
    /\ fn_call.ret.value[3][1].factor = "lighting"
    /\ fn_call.ret.value[3][1].severity = "severe"
    /\ fn_call.ret.value[3][2].factor = "noise"
    /\ fn_call.ret.value[3][3].factor = "humidity"

\* the deviations of a call: |actual - target|, actual - noiseMax, and the
\* distance of the humidity outside [humMin, humMax]
LuxDeviation(a) == Abs(a.lux_actual - a.lux_target)

NoiseDeviation(a) == a.noise_actual - a.noise_max

HumDistance(a) ==
    IF a.hum_actual < a.hum_min THEN a.hum_min - a.hum_actual
    ELSE IF a.hum_actual > a.hum_max THEN a.hum_actual - a.hum_max
    ELSE 0

\* C24: each sub-score is non-increasing in its deviation (a smaller
\* deviation never has a lower sub-score) and lies in [0, 100].
C24_SubScoresMonotone ==
    Done("calculate_env_score")
        => LET a == fn_call.args
               breakdown == fn_call.ret.value[2]
               steps == {1000000, 5000000, 50000000}
           IN  /\ fn_call.ret.raised = "none"
               /\ \A f \in {"lighting", "noise", "humidity"} :
                     breakdown[f] >= 0 /\ breakdown[f] <= 100000000
               /\ \A k \in steps :
                     LuxDeviation(a) - k >= 0
                        => Round1(LightingScore(a.lux_target + LuxDeviation(a) - k,
                                                a.lux_target)) >= breakdown.lighting
               /\ \A k \in steps :
                     Round1(NoiseScore(a.noise_actual - k, a.noise_max)) >= breakdown.noise
               /\ \A k \in steps :
                     HumDistance(a) - k >= 0
                        => Round1(HumidityScore(a.hum_max + HumDistance(a) - k,
                                                a.hum_min, a.hum_max)) >= breakdown.humidity

\* C25: whenever calculate_env_score emits an issue for a factor, the
\* sub-score of that factor in the breakdown is at most 60; a factor whose
\* sub-score is above 60 carries no issue.
C25_IssueImpliesLowScore ==
    Done("calculate_env_score")
        => LET issues == fn_call.ret.value[3]
               breakdown == fn_call.ret.value[2]
           IN  /\ fn_call.ret.raised = "none"
               /\ \A i \in 1..Len(issues) : breakdown[issues[i].factor] <= 60000000
               /\ \A f \in {"lighting", "noise", "humidity"} :
                     breakdown[f] > 60000000 => IssuesOfFactor(issues, f) = << >>

\* a call with an issue on a factor whose sub-score is exactly 60, and a
\* factor without issue whose sub-score is 80
C25_IssueAtSixty ==
    /\ Done("calculate_env_score")
    /\ fn_call.ret.raised = "none"
    /\ \E i \in 1..Len(fn_call.ret.value[3]) :
          /\ fn_call.ret.value[3][i].factor = "noise"
          /\ fn_call.ret.value[2].noise = 60000000
    /\ fn_call.ret.value[2].lighting = 80000000
    /\ IssuesOfFactor(fn_call.ret.value[3], "lighting") = << >>

(***************************************************************************)
(* The direction of the correction (specification SpecFn)                  *)
(***************************************************************************)

\* C26: for occupancy >= 1 and |pmv| > 0.5, with any status and any target
\* of the reference table, a warm vote gives a setpoint <= round(targetTemp)
\* and a cold vote a setpoint >= round(targetTemp), before and after the
\* [16, 30] clamp, half values included.
C26_RightDirection ==
    (Occupied("determine_ac_control") /\ Abs(fn_call.args.pmv) > 500000)
        => LET a == fn_call.args
               before == fn_call.locals.ac_temp
               after == ClampSetpoint(fn_call.locals.ac_temp)
               target == RoundInt(a.target_temp)
           IN  /\ fn_call.locals.branch = "corrected"
               /\ a.pmv > 0 => (before <= target /\ after <= target)
               /\ a.pmv < 0 => (before >= target /\ after >= target)
               /\ (fn_call.ret.raised = "none" /\ a.pmv > 0) => fn_call.ret.value.temp <= target
               /\ (fn_call.ret.raised = "none" /\ a.pmv < 0) => fn_call.ret.value.temp >= target

\* the hottest vote under Kritis with the target 23.5: 23.5 - 3.0 = 20.5 is
\* a half value, the setpoint returned is 20, below round(23.5) = 24
C26_HalfValueDown ==
    /\ Occupied("determine_ac_control")
    /\ fn_call.args.pmv = 3000000
    /\ fn_call.args.status = "Kritis"
    /\ fn_call.args.target_temp = 23500000
    /\ fn_call.locals.temp_adjustment = 3000000
    /\ fn_call.ret.raised = "none"
    /\ fn_call.ret.value.temp = 20

(***************************************************************************)
(* Properties of the MQTT service (specification SpecSvc)                  *)
(***************************************************************************)

\* the message on_message handled last matched the filter of index i and
\* carried a JSON object
HandledObjectFor(i) ==
    /\ service.pc = "collecting"
    /\ service.last_msg.payload.json = "object"
    /\ Matches(MQTT_TOPICS_INPUT[i], service.last_msg.topic)

\* dict d holds every key of p with p's value
HoldsAll(d, p) == d # None /\ \A k \in DOMAIN p : k \in DOMAIN d /\ d[k] = p[k]

\* C27: every message with a JSON object as payload whose topic matches a
\* configured input topic filter is merged by on_message into collected_data
\* under the filter's base topic (the filter without its wildcard suffix),
\* also when that base topic has more than one level.
C27_MatchingMessageStored ==
    \A i \in DOMAIN MQTT_TOPICS_INPUT :
        HandledObjectFor(i)
            => HoldsAll(service.collected_data[MQTT_BASE_TOPICS[i]],
                        service.last_msg.payload.obj)

\* C22: sensor data persists across fetch cycles: after any sequence of
\* cycles persistent_data[topic] holds, for every key ever received on that
\* base topic, the value received last.
C22_LatestValuesKept ==
    service.pc = "sleeping"
        => \A topic \in BaseTopics :
              service.received[topic] # EmptyDict
                  => HoldsAll(service.persistent_data[topic], service.received[topic])

\* a step in which fetch_and_process returns to main's loop
CycleEnds ==
    /\ service.pc \in {"sleeping", "collecting"}
    /\ service.pc' # "collecting"
    /\ ~service.interrupted'
    /\ service' # service

\* after the step every topic holds what the cycle collected for it on top
\* of what it held before
MergedKept ==
    \A topic \in BaseTopics :
        LET old == service.persistent_data[topic]
            got == service.collected_data[topic]
            new == service.persistent_data[topic]'
        IN  IF got = None THEN new = old
            ELSE /\ HoldsAll(new, got)
                 /\ old # None => \A k \in DOMAIN old \ DOMAIN got :
                                     k \in DOMAIN new /\ new[k] = old[k]

\* C23: an error in a fetch cycle does not stop the service: the exception
\* is caught inside fetch_and_process, the client is disconnected, nothing
\* is published for the cycle, persistent_data keeps what was merged before
\* the error, and main goes on to the next cycle; only KeyboardInterrupt
\* ends the loop.
C23_ErrorsContained ==
    [][/\ (CycleEnds /\ service.outcome' = "error")
            => /\ service.pc' = "sleeping"
               /\ ~service.connected'
               /\ service.published' = service.published
               /\ MergedKept
       /\ service.pc' = "stopped" => service.interrupted']_vars

\* a cycle failed in the analysis, with its data merged, and the next cycle
\* is collecting
C23_NextCycleAfterError ==
    /\ service.pc = "collecting"
    /\ service.outcome = "error"
    /\ service.evaluated # NoValue
    /\ service.persistent_data[<<"sensor">>] # None
    /\ service.last_msg # NoMessage

====
